---------------------------- MODULE Spec2Model ----------------------------
(***************************************************************************)
(* A model of generate_latest_post.py: the run of main() (state file,      *)
(* manual override, freshness gate, image selection, commit), the pure     *)
(* function pick_best_image with the URL filters it uses, and              *)
(* extract_from_amp; and of the run of main() of auto_news_instagram.py.   *)
(*                                                                         *)
(* Text is a sequence of one-character strings, so that strip(), lower(),  *)
(* the substring tests and string concatenation are computed as the code   *)
(* computes them.                                                          *)
(***************************************************************************)
EXTENDS Integers, Sequences, FiniteSets, TLC

(***************************************************************************)
(* Text helpers                                                            *)
(***************************************************************************)

\* The absent value (Python's None).
None == <<"None">>

\* str.lower() on the letters the model's texts use.
LowerChar(c) ==
    CASE c = "L" -> "l"
      [] c = "O" -> "o"
      [] c = "G" -> "g"
      [] c = "N" -> "n"
      [] c = "E" -> "e"
      [] c = "W" -> "w"
      [] c = "S" -> "s"
      [] OTHER -> c

Lower(s) == [i \in 1..Len(s) |-> LowerChar(s[i])]

\* Python's  h in u  on strings.
IsSubstr(h, u) ==
    \E i \in 0..(Len(u) - Len(h)) : SubSeq(u, i + 1, i + Len(h)) = h

\* The characters str.strip() removes.
Whitespace == {" ", "\n", "\t"}

RECURSIVE LStrip(_)
LStrip(s) ==
    IF s # <<>> /\ Head(s) \in Whitespace THEN LStrip(Tail(s)) ELSE s

RECURSIVE RStrip(_)
RStrip(s) ==
    IF s # <<>> /\ s[Len(s)] \in Whitespace
    THEN RStrip(SubSeq(s, 1, Len(s) - 1))
    ELSE s

\* str.strip()
Strip(s) == RStrip(LStrip(s))

\* The first index >= from at which a character of stops occurs, or Len(s)+1.
RECURSIVE FindAny(_, _, _)
FindAny(s, stops, from) ==
    IF from > Len(s) THEN Len(s) + 1
    ELSE IF s[from] \in stops THEN from
    ELSE FindAny(s, stops, from + 1)

\* urlparse(u).netloc: what follows "scheme://" up to the next "/", "?" or "#";
\* empty when the URL has no "//" after its scheme.
Netloc(u) ==
    LET colon == FindAny(u, {":"}, 1)
        slash == FindAny(u, {"/", "?", "#"}, 1)
        rest  == IF colon <= Len(u) /\ colon < slash /\ colon > 1
                 THEN SubSeq(u, colon + 1, Len(u))
                 ELSE u
    IN  IF Len(rest) >= 2 /\ rest[1] = "/" /\ rest[2] = "/"
        THEN SubSeq(rest, 3, FindAny(rest, {"/", "?", "#"}, 3) - 1)
        ELSE <<>>

(***************************************************************************)
(* URL filters                                                              *)
(***************************************************************************)

BAD_IMG_HINTS ==
    { <<"l","o","g","o">>,
      <<"i","c","o","n">>,
      <<"p","l","a","c","e","h","o","l","d","e","r">>,
      <<"d","e","f","a","u","l","t">>,
      <<"s","p","r","i","t","e">>,
      <<"b","r","a","n","d","i","n","g">> }

\* u or ""
OrEmpty(u) == IF u = None THEN <<>> ELSE u

GNEWS_HOST == <<"n","e","w","s",".","g","o","o","g","l","e",".","c","o","m">>
GUSERCONTENT == <<"g","o","o","g","l","e","u","s","e","r","c","o","n","t","e","n","t">>
GSTATIC == <<"g","s","t","a","t","i","c">>
BRANDING_PATH == <<"/","i","m","a","g","e","s","/","b","r","a","n","d","i","n","g","/">>
NEWS_ICON == <<"n","e","w","s","_","i","c","o","n">>
LOGO == <<"l","o","g","o">>

\* looks_generic_url on a text
LooksGenericText(u) ==
    LET lu == Lower(u)
    IN  \E h \in BAD_IMG_HINTS : IsSubstr(h, lu)

\* host_of on a text
HostOfText(u) == Lower(Netloc(u))

\* is_gnews_logo on a text
IsGnewsLogoText(u) ==
    LET lu == Lower(u)
        h  == HostOfText(lu)
    IN  /\ IsSubstr(GNEWS_HOST, h)
        /\ \/ IsSubstr(BRANDING_PATH, lu)
           \/ IsSubstr(NEWS_ICON, lu)
           \/ IsSubstr(LOGO, lu)

\* Whether the host is one of Google's: the test of pick_best_image's penalty.
GoogleHostedText(u) ==
    LET hst == HostOfText(u)
    IN  \/ IsSubstr(GUSERCONTENT, hst)
        \/ IsSubstr(GSTATIC, hst)
        \/ IsSubstr(GNEWS_HOST, hst)

\* Image URLs: "https://pub.example/a.jpg", ".../Logo.png" (a blocklisted
\* name), a googleusercontent host, and two news.google.com URLs.
URL_PHOTO ==
    <<"h","t","t","p","s",":","/","/","p","u","b",".","e","x","a","m","p","l","e","/","a",".","j","p","g">>
URL_LOGO ==
    <<"h","t","t","p","s",":","/","/","p","u","b",".","e","x","a","m","p","l","e","/","L","o","g","o",".","p","n","g">>
URL_GUC ==
    <<"h","t","t","p","s",":","/","/","l","h","3",".","g","o","o","g","l","e","u","s","e","r","c","o","n","t","e","n","t",".","c","o","m","/","p">>
URL_GNEWS_IMG ==
    <<"h","t","t","p","s",":","/","/","n","e","w","s",".","g","o","o","g","l","e",".","c","o","m","/","i","m","g","/","p",".","j","p","g">>
URL_GNEWS_ICON ==
    <<"h","t","t","p","s",":","/","/","n","e","w","s",".","g","o","o","g","l","e",".","c","o","m","/","n","e","w","s","_","i","c","o","n",".","p","n","g">>

ImageUrls == {URL_PHOTO, URL_LOGO, URL_GUC, URL_GNEWS_IMG, URL_GNEWS_ICON}

\* The filters' values on the model's image URLs, computed once.
UrlFacts ==
    [u \in ImageUrls |->
        [generic |-> LooksGenericText(u),
         gnewsLogo |-> IsGnewsLogoText(u),
         host |-> HostOfText(u),
         google |-> GoogleHostedText(u)]]

\* looks_generic_url, were it to compare without lower-casing the URL.
LooksGenericNoLower(u) ==
    \E h \in BAD_IMG_HINTS : IsSubstr(h, OrEmpty(u))

looks_generic_url(u) ==
    IF u \in ImageUrls THEN UrlFacts[u].generic
    ELSE LooksGenericText(OrEmpty(u))

host_of(u) ==
    IF u \in ImageUrls THEN UrlFacts[u].host ELSE HostOfText(u)

is_gnews_logo(u) ==
    IF u \in ImageUrls THEN UrlFacts[u].gnewsLogo
    ELSE IsGnewsLogoText(OrEmpty(u))

(***************************************************************************)
(* pick_best_image                                                         *)
(*                                                                         *)
(* A candidate is [url, src, fetched]: the URL (or None), the tier name,   *)
(* and what the HTTP fetch and decode of that URL yields for this request: *)
(* NoFetch (status # 200, exception, undecodable) or a decoded image of    *)
(* size w x h.  An image is [idx, w, h], idx being the place in the list   *)
(* of the candidate it was decoded from; NoImg is Python's None.           *)
(***************************************************************************)

TierSet == {"publisher", "rss", "gnews"}

NoFetch == [ok |-> FALSE, w |-> 0, h |-> 0]
Fetched(w, h) == [ok |-> TRUE, w |-> w, h |-> h]

NoImg == [idx |-> 0, w |-> 0, h |-> 0]

MIN_W == 300
MIN_H == 200

\* download_image: NoFetch for a missing or blocklisted URL, else what the
\* request yields.
download_image(c) ==
    IF \/ c.url = None
       \/ c.url = <<>>
       \/ looks_generic_url(c.url)
       \/ is_gnews_logo(c.url)
    THEN NoFetch
    ELSE c.fetched

\* The size test, were it to look at the width only.
TooSmallIgnoringHeight(w, h) == w < MIN_W

\* w < 300 or h < 200
TooSmall(w, h) == w < MIN_W \/ h < MIN_H

\* The penalty, were it 1.0 for every host.
PenaltyNone(url) == 10

\* penalty, in tenths: 0.6 for a google-hosted image, 1.0 otherwise
PenaltyTenths(url) ==
    IF (IF url \in ImageUrls THEN UrlFacts[url].google ELSE GoogleHostedText(url))
    THEN 6 ELSE 10

\* score = area * penalty, in tenths of a pixel
Score(url, w, h) == w * h * PenaltyTenths(url)

EmptyBest == [t \in TierSet |-> [score |-> 0, img |-> NoImg]]

\* One iteration of the loop over candidates: the new value of best.
PickStep(best, c, i) ==
    IF c.url = None \/ c.url = <<>> THEN best
    ELSE IF looks_generic_url(c.url) \/ is_gnews_logo(c.url) THEN best
    ELSE LET img == download_image(c)
         IN  IF ~img.ok THEN best
             ELSE IF TooSmall(img.w, img.h) THEN best
             ELSE IF Score(c.url, img.w, img.h) > best[c.src].score
                  THEN [best EXCEPT ![c.src] =
                          [score |-> Score(c.url, img.w, img.h),
                           img   |-> [idx |-> i, w |-> img.w, h |-> img.h]]]
                  ELSE best

RECURSIVE PickLoop(_, _, _)
PickLoop(cands, i, best) ==
    IF i > Len(cands) THEN best
    ELSE PickLoop(cands, i + 1, PickStep(best, cands[i], i))

\* The final loop, were it to return the best score over all tiers.
FinalPickByScore(best) ==
    LET have == {t \in TierSet : best[t].img # NoImg}
    IN  IF have = {} THEN NoImg
        ELSE best[CHOOSE t \in have :
                    \A t2 \in have : best[t].score >= best[t2].score].img

\* for src in ("publisher", "rss", "gnews"): the first tier holding an image
FinalPick(best) ==
    IF best["publisher"].img # NoImg THEN best["publisher"].img
    ELSE IF best["rss"].img # NoImg THEN best["rss"].img
    ELSE IF best["gnews"].img # NoImg THEN best["gnews"].img
    ELSE NoImg

pick_best_image(cands) == FinalPick(PickLoop(cands, 1, EmptyBest))

(***************************************************************************)
(* Fingerprints                                                            *)
(*                                                                         *)
(* hashlib.sha256(text).hexdigest()[:16] is modelled by a small            *)
(* deterministic hash with the same shape: a function of the whole text    *)
(* whose value is HEX_LEN hexadecimal digits.                              *)
(***************************************************************************)

HEX_LEN == 16

HexDigits == <<"0","1","2","3","4","5","6","7","8","9","a","b","c","d","e","f">>

CharCode(c) ==
    CASE c = "a" -> 1
      [] c = "b" -> 2
      [] c = "c" -> 3
      [] c = " " -> 4
      [] OTHER -> 5

RECURSIVE HashAcc(_)
HashAcc(s) ==
    IF s = <<>> THEN 7
    ELSE (HashAcc(SubSeq(s, 1, Len(s) - 1)) * 31 + CharCode(s[Len(s)])) % 65536

\* sha256(s).hexdigest()[:16]
Sha256Hex16(s) ==
    [i \in 1..HEX_LEN |-> HexDigits[((HashAcc(s) \div i) % 16) + 1]]

MANUAL_PREFIX == <<"m","a","n","u","a","l","_">>

\* A manual id, were it to carry no prefix.
ManualIdNoPrefix(txt) == Sha256Hex16(txt)

\* "manual_" + sha256(txt)[:16]
ManualId(txt) == MANUAL_PREFIX \o Sha256Hex16(txt)

\* nid = sha256(title + page_url)[:16]
AutoId(title, page_url) == Sha256Hex16(title \o page_url)

(***************************************************************************)
(* The state file out/last_id.json                                         *)
(*                                                                         *)
(* The file is missing, blank, not JSON ("garbage"), or holds a JSON       *)
(* value.  A JSON value is [type, d]: type is "dict", "list", "str" or     *)
(* "null", and d is the dict's content ([keys, <one field per key>]; a key *)
(* not in keys holds its default).  Python's objects after json.loads are  *)
(* the same values.                                                        *)
(***************************************************************************)

\* An absent instant (published_at = None).
NoTime == -1

QUERY_TOP == <<"top_stories">>

EmptyDict ==
    [keys |-> {}, last_id |-> None, last_title |-> None, last_link |-> None,
     last_published_utc |-> NoTime, query |-> None, max_age_minutes |-> 0]

JsonDict(d) == [type |-> "dict", d |-> d]
JsonOther(t) == [type |-> t, d |-> EmptyDict]

FileMissing == [kind |-> "missing", val |-> JsonOther("null")]
FileBlank == [kind |-> "blank", val |-> JsonOther("null")]
FileGarbage == [kind |-> "garbage", val |-> JsonOther("null")]
FileJson(v) == [kind |-> "json", val |-> v]

\* load_state: {} for a missing, blank or unparsable file, else json.loads(data)
load_state(file) ==
    CASE file.kind = "missing" -> JsonDict(EmptyDict)
      [] file.kind = "blank"   -> JsonDict(EmptyDict)
      [] file.kind = "garbage" -> JsonDict(EmptyDict)
      [] OTHER                 -> file.val

\* save_state: the file after json.dump(s)
save_state(s) == FileJson(s)

\* state["last_id"] = id
SetLastId(st, id) ==
    JsonDict([st.d EXCEPT !.keys = @ \cup {"last_id"}, !.last_id = id])

AllKeys ==
    {"last_id", "last_title", "last_link", "last_published_utc", "query",
     "max_age_minutes"}

\* state.update({...}), were it to leave last_id alone once set.
StateUpdateKeepOld(st, nid, title, link, pub, maxage) ==
    JsonDict([keys |-> AllKeys,
              last_id |-> IF "last_id" \in st.d.keys THEN st.d.last_id ELSE nid,
              last_title |-> title, last_link |-> link,
              last_published_utc |-> pub, query |-> QUERY_TOP,
              max_age_minutes |-> maxage])

\* state.update({last_id, last_title, last_link, last_published_utc, query,
\* max_age_minutes})
StateUpdate(st, nid, title, link, pub, maxage) ==
    JsonDict([keys |-> st.d.keys \cup AllKeys,
              last_id |-> nid, last_title |-> title, last_link |-> link,
              last_published_utc |-> pub, query |-> QUERY_TOP,
              max_age_minutes |-> maxage])

(***************************************************************************)
(* The feed                                                                *)
(***************************************************************************)

MAX_ITEMS == 12

NoEntry == [title |-> None, link |-> None, published_at |-> NoTime]

\* parse_dt: the instant of a date header, None when missing or unparsable.
parse_dt(raw) == IF raw.kind = "date" THEN raw.t ELSE NoTime

\* fetch_gn_entries: the first max_items entries, normalised.
fetch_gn_entries(rawEntries) ==
    LET n == IF Len(rawEntries) < MAX_ITEMS THEN Len(rawEntries) ELSE MAX_ITEMS
    IN  [i \in 1..n |->
            [title |-> Strip(rawEntries[i].title),
             link |-> Strip(rawEntries[i].link),
             published_at |-> parse_dt(rawEntries[i].published)]]

HasDate(x) == x.published_at # NoTime

\* pick_newest, were it to keep the entries without a publish instant.
PickNewestUnfiltered(entries) ==
    IF entries = <<>> THEN NoEntry
    ELSE LET top == CHOOSE i \in 1..Len(entries) :
                      /\ \A j \in 1..Len(entries) :
                            entries[j].published_at <= entries[i].published_at
                      /\ \A j \in 1..(i - 1) :
                            entries[j].published_at < entries[i].published_at
         IN  entries[top]

\* pick_newest: the first entry with the greatest publish instant among those
\* that have one (list.sort is stable), None when there is none.
pick_newest(entries) ==
    LET valid == SelectSeq(entries, HasDate)
    IN  IF valid = <<>> THEN NoEntry
        ELSE LET top == CHOOSE i \in 1..Len(valid) :
                          /\ \A j \in 1..Len(valid) :
                                valid[j].published_at <= valid[i].published_at
                          /\ \A j \in 1..(i - 1) :
                                valid[j].published_at < valid[i].published_at
             IN  valid[top]

SENTINEL_AGE_MIN == 9999

\* age_min, in seconds: (now - pub).total_seconds() if pub else 9999 minutes
AgeSec(now_, pub) == IF pub # NoTime THEN now_ - pub ELSE SENTINEL_AGE_MIN * 60

\* The gate, were it to reject at equality.
IsStaleAtEquality(ageSec, maxAgeMin) == ageSec >= maxAgeMin * 60

\* age_min > MAX_AGE_MINUTES
IsStale(ageSec, maxAgeMin) == ageSec > maxAgeMin * 60

(***************************************************************************)
(* extract_from_amp                                                        *)
(*                                                                         *)
(* The AMP page is [ok, elems]: ok says that the article page and the AMP  *)
(* page were both fetched with status 200 and the amphtml link was there;  *)
(* elems is the page's <amp-img>/<img> elements in document order, each    *)
(* [url, fetched]: its URL (the last srcset entry or src; None when it has *)
(* neither) and what a download of that URL yields.                        *)
(***************************************************************************)

NoAmpPage == [ok |-> FALSE, elems |-> <<>>]

HasSrc(e) == e.url # None

\* img and img.size[0] >= 300 and img.size[1] >= 200
AmpBigEnough(img) == img.ok /\ img.w >= MIN_W /\ img.h >= MIN_H

\* for u in reversed(cand): from the last element down to the first, the
\* first URL that passes the blocklist and downloads at 300 x 200 or more.
RECURSIVE AmpLoop(_, _)
AmpLoop(cand, i) ==
    IF i = 0 THEN None
    ELSE LET e == cand[i]
         IN  IF looks_generic_url(e.url) \/ is_gnews_logo(e.url)
             THEN AmpLoop(cand, i - 1)
             ELSE IF AmpBigEnough(download_image(e)) THEN e.url
                  ELSE AmpLoop(cand, i - 1)

extract_from_amp(page) ==
    IF ~page.ok THEN None
    ELSE LET cand == SelectSeq(page.elems, HasSrc)
         IN  AmpLoop(cand, Len(cand))

(***************************************************************************)
(* Inputs                                                                  *)
(***************************************************************************)

\* Bounds of the model.
MaxEntries == 2
MaxCands == 3
MaxElems == 3

\* What a request for an image may yield: nothing, or an image at the
\* minimum size, a large one, one too narrow, one too low.
Fetches ==
    {NoFetch, Fetched(300, 200), Fetched(4000, 3000), Fetched(299, 3000),
     Fetched(4000, 199)}

\* The candidates pick_best_image is tried on, in any tier: an ordinary URL
\* with any fetch, google-hosted URLs with an image behind them, blocklisted
\* URLs with a large image behind them, no URL at all; and the 400x300
\* publisher image.
CandPool ==
    [url : {URL_PHOTO}, src : TierSet, fetched : Fetches]
        \cup [url : {URL_GUC}, src : TierSet,
              fetched : {Fetched(300, 200), Fetched(4000, 3000)}]
        \cup [url : {URL_GNEWS_IMG, URL_LOGO, URL_GNEWS_ICON}, src : TierSet,
              fetched : {Fetched(4000, 3000)}]
        \cup [url : {None}, src : TierSet, fetched : {NoFetch}]
        \cup {[url |-> URL_PHOTO, src |-> "publisher",
               fetched |-> Fetched(400, 300)]}


\* The image elements of an AMP page: three URLs the blocklist lets through,
\* each with a download at the minimum size, a large one, one too narrow or
\* a failing one; a blocklisted URL; an element without src.
AmpElems ==
    [url : {URL_PHOTO, URL_GUC, URL_GNEWS_IMG},
     fetched : {Fetched(300, 200), Fetched(4000, 3000), Fetched(299, 3000),
                NoFetch}]
        \cup {[url |-> URL_LOGO, fetched |-> Fetched(4000, 3000)],
              [url |-> None, fetched |-> NoFetch]}

\* headline.txt: missing, or present with this text.
OverrideTexts == { <<" ", "\n">>, <<" ","a","b","c","\n">>, <<"a">> }

OverrideFiles ==
    {[exists |-> FALSE, text |-> <<>>]}
        \cup {[exists |-> TRUE, text |-> t] : t \in OverrideTexts}

\* MAX_AGE_MINUTES, in minutes; instants, in seconds.
MaxAges == {1, 9999}
Nows == {120, 150}
PubTimes == {60, 90}

RawTitles == { <<"a"," ">>, <<"a","b">> }
RawLinks == { <<"b","c"," ">> }
RawDates ==
    {[kind |-> "missing", t |-> NoTime], [kind |-> "garbage", t |-> NoTime]}
        \cup {[kind |-> "date", t |-> p] : p \in PubTimes}

RawEntries == [title : RawTitles, link : RawLinks, published : RawDates]

RawFeeds == UNION {[1..n -> RawEntries] : n \in 0..MaxEntries}

\* The state file before the first run.
InitFiles ==
    {FileMissing, FileBlank, FileGarbage, FileJson(JsonOther("list")),
     FileJson(JsonOther("str")), FileJson(JsonDict(EmptyDict))}

(***************************************************************************)
(* main(): one run after another                                           *)
(***************************************************************************)

VARIABLES
    pc,          \* where the run stands: "idle", "manual", "manual_commit",
                 \* "fetch", "extract", "render", "commit", "done"; "off"
                 \* when only pick_best_image is exercised
    stateFile,   \* out/last_id.json
    startFile,   \* out/last_id.json as it was when the run started
    state,       \* main's local  state
    override,    \* headline.txt
    maxAge,      \* MAX_AGE_MINUTES
    now,         \* main's local  now
    newest,      \* main's local  newest
    feedKind,    \* the feed this run fetched: "unfetched", "empty",
                 \* "undated" (no entry has a publish instant), "dated"
    page_url,    \* main's local  page_url
    bg_img,      \* main's local  bg_img
    poster,      \* the poster file written by this run
    writes,      \* how often this run has written the state file
    committed,   \* the last_id this run has written, None if none
    outcome,     \* how the run ended
    prev,        \* what the run before committed: its outcome ("manual",
                 \* "rendered", or "none" when it committed nothing) and
                 \* the last_id it wrote
    gdelt_queried, \* whether this run has called fetch_gdelt_image
    amp_page,    \* extract_from_amp: the AMP page it is called on
    amp_img_url, \* extract_from_amp's result
    newsPc,      \* auto_news_instagram.main: "off", "idle" or "done"
    FORCE_GENERATE, \* the setting of the run
    news_now,    \* utcnow() of the run, in hours
    base_url,    \* compute_base_url()
    mc_raw,      \* the entries of the Moneycontrol feeds
    google_raw,  \* the entries of the Google feed, <<>> when not fetched
    google_asked, \* whether the run called fetch_google
    it,          \* main's local  it, NoItem when there was no item
    drawn,       \* the uid of the card the run drew, None if none
    cardFiles,   \* the uids of the card files in OUTPUT_DIR
    metaFile,    \* meta.json
    urlFile,     \* url.txt
    filesBefore, \* cardFiles, metaFile and urlFile when the run started
    cands,       \* pick_best_image's argument (main's local  candidates)
    picked,      \* pick_best_image's result
    pickPc       \* "off", "ready" or "returned"

vars ==
    <<pc, stateFile, startFile, state, override, maxAge, now, newest,
      feedKind, page_url, bg_img, poster, writes, committed, outcome, prev,
      gdelt_queried, amp_page, amp_img_url, cands, picked, pickPc,
      newsPc, FORCE_GENERATE, news_now, base_url, mc_raw, google_raw,
      google_asked, it, drawn, cardFiles, metaFile, urlFile, filesBefore>>

pickVars == <<cands, picked, pickPc>>

ampVars == <<amp_page, amp_img_url>>

newsVars ==
    <<newsPc, FORCE_GENERATE, news_now, base_url, mc_raw, google_raw,
      google_asked, it, drawn, cardFiles, metaFile, urlFile, filesBefore>>

NoItem == [title |-> None, link |-> None, published |-> NoTime]

\* meta.json and url.txt when they do not exist.
NoMeta == [uid |-> None, caption |-> None, image_url |-> None]
NoUrl == None

\* auto_news_instagram.main has not run.
NewsOff ==
    /\ newsPc = "off"
    /\ FORCE_GENERATE = TRUE
    /\ news_now = 0
    /\ base_url = <<>>
    /\ mc_raw = <<>>
    /\ google_raw = <<>>
    /\ google_asked = FALSE
    /\ it = NoItem
    /\ drawn = None
    /\ cardFiles = {}
    /\ metaFile = NoMeta
    /\ urlFile = NoUrl
    /\ filesBefore = [cards |-> {}, meta |-> NoMeta, url |-> NoUrl]

NoPoster == [kind |-> "none", headline |-> None, img |-> NoImg]

NoPrev == [outcome |-> "none", id |-> None]

\* txt = open(OVERRIDE_PATH).read().strip()
OverrideTxt == Strip(override.text)

\* os.path.exists(OVERRIDE_PATH) and txt
ManualTaken == override.exists /\ OverrideTxt # <<>>

Init ==
    /\ pc = "idle"
    /\ stateFile \in InitFiles
    /\ startFile = stateFile
    /\ state = JsonDict(EmptyDict)
    /\ override = [exists |-> FALSE, text |-> <<>>]
    /\ maxAge = 1
    /\ now = 0
    /\ newest = NoEntry
    /\ feedKind = "unfetched"
    /\ page_url = None
    /\ bg_img = NoImg
    /\ poster = NoPoster
    /\ writes = 0
    /\ committed = None
    /\ outcome = "none"
    /\ prev = NoPrev
    /\ gdelt_queried = FALSE
    /\ amp_page = NoAmpPage
    /\ amp_img_url = None
    /\ cands = <<>>
    /\ picked = NoImg
    /\ pickPc = "off"
    /\ NewsOff

\* A run starts: ensure_dirs(), state = load_state(), and the look at
\* headline.txt.  The operator may have changed headline.txt and
\* MAX_AGE_MINUTES since the run before.
StartRun ==
    /\ pc \in {"idle", "done"}
    /\ \E ov \in OverrideFiles, m \in MaxAges :
          /\ override' = ov
          /\ maxAge' = m
          /\ pc' = IF ov.exists /\ Strip(ov.text) # <<>> THEN "manual" ELSE "fetch"
    /\ state' = load_state(stateFile)
    /\ startFile' = stateFile
    /\ prev' = IF pc = "done"
               THEN [outcome |-> IF committed = None THEN "none" ELSE outcome,
                     id |-> committed]
               ELSE prev
    /\ now' = 0
    /\ newest' = NoEntry
    /\ feedKind' = "unfetched"
    /\ page_url' = None
    /\ bg_img' = NoImg
    /\ poster' = NoPoster
    /\ writes' = 0
    /\ committed' = None
    /\ outcome' = "none"
    /\ cands' = <<>>
    /\ gdelt_queried' = FALSE
    /\ UNCHANGED <<stateFile, picked, pickPc>>
    /\ UNCHANGED ampVars
    /\ UNCHANGED newsVars

\* Manual override: render_layout(txt, "Manual", "--:--", None) and the
\* poster file.
ManualRender ==
    /\ pc = "manual"
    /\ poster' = [kind |-> "manual", headline |-> OverrideTxt, img |-> NoImg]
    /\ pc' = "manual_commit"
    /\ UNCHANGED <<stateFile, startFile, state, override, maxAge, now, newest,
                   feedKind, page_url, bg_img, writes, committed, outcome,
                   prev, gdelt_queried,
                   pickVars>>
    /\ UNCHANGED ampVars
    /\ UNCHANGED newsVars

\* state["last_id"] = "manual_" + ...; save_state(state); return.
\* The item assignment raises TypeError on a list, a str or None.
ManualCommit ==
    /\ pc = "manual_commit"
    /\ IF state.type = "dict"
       THEN /\ state' = SetLastId(state, ManualId(OverrideTxt))
            /\ stateFile' = save_state(state')
            /\ writes' = writes + 1
            /\ committed' = ManualId(OverrideTxt)
            /\ outcome' = "manual"
       ELSE /\ outcome' = "crashed"
            /\ UNCHANGED <<state, stateFile, writes, committed>>
    /\ pc' = "done"
    /\ UNCHANGED <<startFile, override, maxAge, now, newest, feedKind,
                   page_url, bg_img, poster, prev, gdelt_queried,
                   pickVars>>
    /\ UNCHANGED ampVars
    /\ UNCHANGED newsVars

\* What one fetch of the feed can give main: newest = pick_newest(
\* fetch_gn_entries()), with the kind of feed it came from.
\* Computed once, over every feed of RawFeeds.
FeedRuns ==
    { [newest |-> pick_newest(fetch_gn_entries(raw)),
       kind |-> IF raw = <<>> THEN "empty"
                ELSE IF \A i \in 1..Len(raw) : raw[i].published.kind # "date"
                     THEN "undated" ELSE "dated"] : raw \in RawFeeds }

\* entries = fetch_gn_entries(); newest = pick_newest(entries); the
\* NO_NEWS_FOUND return; the freshness gate.
FetchAndGate ==
    /\ pc = "fetch"
    /\ \E f \in FeedRuns, t \in Nows :
          /\ feedKind' = f.kind
          /\ newest' = f.newest
          /\ IF f.newest = NoEntry
             THEN /\ outcome' = "no-news-found"
                  /\ pc' = "done"
                  /\ now' = now
             ELSE /\ now' = t
                  /\ IF IsStale(AgeSec(t, f.newest.published_at), maxAge)
                     THEN outcome' = "skipped-stale" /\ pc' = "done"
                     ELSE outcome' = outcome /\ pc' = "extract"
    /\ UNCHANGED <<stateFile, startFile, state, override, maxAge, page_url,
                   bg_img, poster, writes, committed, prev, gdelt_queried,
                   pickVars>>
    /\ UNCHANGED ampVars
    /\ UNCHANGED newsVars

\* What one image source of main may hand to pick_best_image: no URL (the
\* source found nothing, failed or timed out), or a URL with what its
\* download yields.
SourceResults ==
    { [url |-> None, fetched |-> NoFetch],
      [url |-> URL_PHOTO, fetched |-> Fetched(400, 300)],
      [url |-> URL_PHOTO, fetched |-> NoFetch],
      [url |-> URL_LOGO, fetched |-> Fetched(4000, 3000)] }

\* What each of the five sources hands to main in the runs of the model:
\* nothing, or one URL.  The publisher page, the search index and the news
\* page give a photo that downloads; the AMP page a photo whose download by
\* pick_best_image fails; the feed entry a blocklisted URL.
PubResults == {r \in SourceResults : r.url = None \/ r.fetched = Fetched(400, 300)}
AmpResults == {r \in SourceResults : r.url = None \/ (r.url = URL_PHOTO /\ ~r.fetched.ok)}
RssResults == {r \in SourceResults : r.url \in {None, URL_LOGO}}
GdeltResults == PubResults
GnewsResults == PubResults

\* The URLs resolve_canonical may end on after redirects and canonical hints.
CanonicalUrls == { <<"b","c">>, <<"c">> }

Cand(r, src) == [url |-> r.url, src |-> src, fetched |-> r.fetched]

\* The source found nothing, failed or timed out.
NoResult == [url |-> None, fetched |-> NoFetch]

\* from_soup raised: urljoin() raises ValueError on a malformed image URL in
\* the page's markup (e.g. content="http://[bad").
Raised == [url |-> <<"ValueError">>, fetched |-> NoFetch]

\* extract_og_like: from_soup(soup) on the page resolve_canonical fetched,
\* outside any try; when that finds nothing (or there is no soup), the page
\* is fetched again and scanned inside try/except.  Raised means the
\* exception leaves extract_og_like.
extract_og_like(hasSoup, fromSoup, refetched) ==
    IF hasSoup /\ fromSoup = Raised THEN Raised
    ELSE IF hasSoup /\ fromSoup.url # None THEN fromSoup
    ELSE IF refetched = Raised THEN NoResult
    ELSE refetched

\* extract_gnews_thumbnail: extract_og_like inside try/except.
extract_gnews_thumbnail(r) == IF r = Raised THEN NoResult ELSE r

\* candidates and bg_img = pick_best_image(candidates), over every
\* combination of what the five image sources hand to main.  Computed once.
MainPicks ==
    { [candidates |-> c, img |-> pick_best_image(c)] :
        c \in { << Cand(p, "publisher"), Cand(a, "publisher"), Cand(r, "rss"),
                   Cand(g, "rss"), Cand(extract_gnews_thumbnail(n), "gnews") >> :
                 p \in PubResults, a \in AmpResults,
                 r \in RssResults, g \in GdeltResults,
                 n \in GnewsResults \cup {Raised} } }

\* resolve_canonical (the link itself when the request fails), the five image
\* sources (extract_og_like, extract_from_amp, the entry's rss_media_url,
\* fetch_gdelt_image, extract_gnews_thumbnail), one after the other and
\* each whatever the others returned, and pick_best_image.  An exception
\* leaving extract_og_like ends the run before the other sources are tried.
ExtractAndPick ==
    /\ pc = "extract"
    /\ \E hasSoup \in BOOLEAN :
          /\ \E u \in {newest.link} \cup (IF hasSoup THEN CanonicalUrls ELSE {}) :
                page_url' = u
          /\ \/ /\ \E fromSoup \in {NoResult, Raised} :
                      extract_og_like(hasSoup, fromSoup, NoResult) = Raised
                /\ outcome' = "source-raised"
                /\ pc' = "done"
                /\ UNCHANGED <<bg_img, cands, gdelt_queried>>
             \/ /\ \E r \in MainPicks :
                      /\ cands' = r.candidates
                      /\ bg_img' = r.img
                /\ gdelt_queried' = TRUE
                /\ pc' = "render"
                /\ outcome' = outcome
    /\ UNCHANGED <<stateFile, startFile, state, override, maxAge, now, newest,
                   feedKind, poster, writes, committed, prev, picked, pickPc>>
    /\ UNCHANGED ampVars
    /\ UNCHANGED newsVars

\* pub.astimezone(ist) (AttributeError when pub is None), render_layout and
\* the poster file.
Render ==
    /\ pc = "render"
    /\ IF newest.published_at = NoTime
       THEN /\ outcome' = "crashed"
            /\ pc' = "done"
            /\ poster' = poster
       ELSE /\ poster' = [kind |-> "auto", headline |-> newest.title,
                          img |-> bg_img]
            /\ pc' = "commit"
            /\ outcome' = outcome
    /\ UNCHANGED <<stateFile, startFile, state, override, maxAge, now, newest,
                   feedKind, page_url, bg_img, writes, committed, prev, gdelt_queried,
                   pickVars>>
    /\ UNCHANGED ampVars
    /\ UNCHANGED newsVars

\* state.update({...}); save_state(state).  update raises AttributeError on
\* a list, a str or None.
Commit ==
    /\ pc = "commit"
    /\ IF state.type = "dict"
       THEN /\ state' = StateUpdate(state, AutoId(newest.title, page_url),
                                    newest.title, page_url,
                                    newest.published_at, maxAge)
            /\ stateFile' = save_state(state')
            /\ writes' = writes + 1
            /\ committed' = AutoId(newest.title, page_url)
            /\ outcome' = "rendered"
       ELSE /\ outcome' = "crashed"
            /\ UNCHANGED <<state, stateFile, writes, committed>>
    /\ pc' = "done"
    /\ UNCHANGED <<startFile, override, maxAge, now, newest, feedKind,
                   page_url, bg_img, poster, prev, gdelt_queried,
                   pickVars>>
    /\ UNCHANGED ampVars
    /\ UNCHANGED newsVars

\* The same failure, were main to open the state file for writing before it
\* renders.
FailAfterOpeningState ==
    /\ pc \in {"manual", "fetch", "render"}
    /\ outcome' = "failed"
    /\ pc' = "done"
    /\ stateFile' = IF pc = "render" THEN FileBlank ELSE stateFile
    /\ UNCHANGED <<startFile, state, override, maxAge, now, newest,
                   feedKind, page_url, bg_img, poster, writes, committed,
                   prev, gdelt_queried,
                   pickVars>>
    /\ UNCHANGED ampVars
    /\ UNCHANGED newsVars

\* An exception the run does not catch before its commit: the feed fetch,
\* render_layout or the write of the poster file fails.
Fail ==
    /\ pc \in {"manual", "fetch", "render"}
    /\ outcome' = "failed"
    /\ pc' = "done"
    /\ UNCHANGED <<stateFile, startFile, state, override, maxAge, now, newest,
                   feedKind, page_url, bg_img, poster, writes, committed,
                   prev, gdelt_queried,
                   pickVars>>
    /\ UNCHANGED ampVars
    /\ UNCHANGED newsVars

Next ==
    \/ StartRun
    \/ ManualRender
    \/ ManualCommit
    \/ FetchAndGate
    \/ ExtractAndPick
    \/ Render
    \/ Commit
    \/ Fail

Spec == Init /\ [][Next]_vars

(***************************************************************************)
(* pick_best_image on its own: every list of at most MaxCands        *)
(* candidates of CandPool, then the call.                                   *)
(***************************************************************************)

InitPick ==
    /\ pc = "off"
    /\ stateFile = FileMissing
    /\ startFile = FileMissing
    /\ state = JsonDict(EmptyDict)
    /\ override = [exists |-> FALSE, text |-> <<>>]
    /\ maxAge = 1
    /\ now = 0
    /\ newest = NoEntry
    /\ feedKind = "unfetched"
    /\ page_url = None
    /\ bg_img = NoImg
    /\ poster = NoPoster
    /\ writes = 0
    /\ committed = None
    /\ outcome = "none"
    /\ prev = NoPrev
    /\ gdelt_queried = FALSE
    /\ amp_page = NoAmpPage
    /\ amp_img_url = None
    /\ \E n \in 0..MaxCands : cands \in [1..n -> CandPool]
    /\ picked = NoImg
    /\ pickPc = "ready"
    /\ NewsOff

PickCall ==
    /\ pickPc = "ready"
    /\ picked' = pick_best_image(cands)
    /\ pickPc' = "returned"
    /\ UNCHANGED <<pc, stateFile, startFile, state, override, maxAge, now,
                   newest, feedKind, page_url, bg_img, poster, writes,
                   committed, outcome, prev, gdelt_queried,
                   cands>>
    /\ UNCHANGED ampVars
    /\ UNCHANGED newsVars

NextPick == PickCall

SpecPick == InitPick /\ [][NextPick]_vars

(***************************************************************************)
(* extract_from_amp on its own: every AMP page of at most MaxElems image   *)
(* elements of AmpElems, then the call.                                    *)
(***************************************************************************)

InitAmp ==
    /\ pc = "off"
    /\ stateFile = FileMissing
    /\ startFile = FileMissing
    /\ state = JsonDict(EmptyDict)
    /\ override = [exists |-> FALSE, text |-> <<>>]
    /\ maxAge = 1
    /\ now = 0
    /\ newest = NoEntry
    /\ feedKind = "unfetched"
    /\ page_url = None
    /\ bg_img = NoImg
    /\ poster = NoPoster
    /\ writes = 0
    /\ committed = None
    /\ outcome = "none"
    /\ prev = NoPrev
    /\ gdelt_queried = FALSE
    /\ \E ok \in BOOLEAN, n \in 0..MaxElems :
          \E es \in [1..n -> AmpElems] : amp_page = [ok |-> ok, elems |-> es]
    /\ amp_img_url = None
    /\ cands = <<>>
    /\ picked = NoImg
    /\ pickPc = "amp_ready"
    /\ NewsOff

AmpCall ==
    /\ pickPc = "amp_ready"
    /\ amp_img_url' = extract_from_amp(amp_page)
    /\ pickPc' = "amp_returned"
    /\ UNCHANGED <<pc, stateFile, startFile, state, override, maxAge, now,
                   newest, feedKind, page_url, bg_img, poster, writes,
                   committed, outcome, prev, gdelt_queried, amp_page, cands,
                   picked>>
    /\ UNCHANGED newsVars

NextAmp == AmpCall

SpecAmp == InitAmp /\ [][NextAmp]_vars

(***************************************************************************)
(* auto_news_instagram.py: main(), one run after another                   *)
(*                                                                         *)
(* Instants are in hours.  A feed entry is [title, link, pp]: pp is its    *)
(* published_parsed, NoTime when the entry has none.  An item is [title,   *)
(* link, published].  hashlib.sha1(text).hexdigest() is modelled by a      *)
(* small deterministic hash of the whole text, SHA1_LEN hexadecimal        *)
(* digits long.                                                            *)
(***************************************************************************)

NEWS_WINDOW_HOURS == 6

SHA1_LEN == 40

Sha1Code(c) ==
    CASE c = "a" -> 1
      [] c = "b" -> 2
      [] c = "c" -> 3
      [] c = "0" -> 4
      [] c = "1" -> 5
      [] c = "f" -> 6
      [] c = "l" -> 7
      [] c = "k" -> 8
      [] OTHER -> 9

RECURSIVE Sha1Acc(_)
Sha1Acc(s) ==
    IF s = <<>> THEN 11
    ELSE (Sha1Acc(SubSeq(s, 1, Len(s) - 1)) * 37 + Sha1Code(s[Len(s)])) % 65536

\* hashlib.sha1(s.encode()).hexdigest()
Sha1Hex(s) ==
    LET acc == Sha1Acc(s)
    IN  [i \in 1..SHA1_LEN |-> HexDigits[((acc \div i) % 16) + 1]]

\* now.strftime(...): the text of an instant (two digits in the model).
NowText(t) == <<HexDigits[((t \div 10) % 10) + 1], HexDigits[(t % 10) + 1]>>

FALLBACK == <<"f","a","l","l","b","a","c","k">>
PNG == <<".","p","n","g">>

\* uid = sha1(it["title"] + it["link"])
ItemUid(x) == Sha1Hex(x.title \o x.link)

\* uid = sha1("fallback" + now)
FallbackUid(t) == Sha1Hex(FALLBACK \o NowText(t))

\* cutoff_dt(hours)
cutoff_dt(t, hours) == t - hours

\* The loop of fetch_moneycontrol and of fetch_google over the entries of a
\* feed: pub is published_parsed, or utcnow() when the entry has none, and
\* entries with pub < cut are dropped.
RECURSIVE KeptItems(_, _, _)
KeptItems(raw, t, cut) ==
    IF raw = <<>> THEN <<>>
    ELSE LET e   == Head(raw)
             pub == IF e.pp # NoTime THEN e.pp ELSE t
         IN  IF pub < cut THEN KeptItems(Tail(raw), t, cut)
             ELSE <<[title |-> e.title, link |-> e.link, published |-> pub]>>
                     \o KeptItems(Tail(raw), t, cut)

fetch_moneycontrol(raw, t, hours) == KeptItems(raw, t, cutoff_dt(t, hours))

fetch_google(raw, t, hours) == KeptItems(raw, t, cutoff_dt(t, hours))

\* max(items, key=lambda x: x["published"]): the first item with the
\* greatest publish instant.
MaxByPublished(items) ==
    items[CHOOSE i \in 1..Len(items) :
            /\ \A j \in 1..Len(items) : items[j].published <= items[i].published
            /\ \A j \in 1..(i - 1) : items[j].published < items[i].published]

\* The duplicate safeguard, were it to ignore FORCE_GENERATE.
SkipsDuplicateAlways(force, exists) == exists

\* (not FORCE_GENERATE) and os.path.exists(out_file)
SkipsDuplicate(force, exists) == (~force) /\ exists

\* image_url = f"{base}{uid}.png" if base else ""
ImageUrl(base, uid) == IF base # <<>> THEN base \o uid \o PNG ELSE <<>>

\* The run's settings and feeds.
NewsNows == {10}
NewsBases == { <<>>, <<"u","/">> }
McEntries ==
    { [title |-> <<"a">>, link |-> <<"c">>, pp |-> 5],
      [title |-> <<"b">>, link |-> <<"c">>, pp |-> 4],
      [title |-> <<"b">>, link |-> <<"c">>, pp |-> 3] }
GoogleEntries ==
    { [title |-> <<"b">>, link |-> <<"c">>, pp |-> NoTime],
      [title |-> <<"a">>, link |-> <<"c">>, pp |-> 3] }
McFeeds == UNION {[1..n -> McEntries] : n \in 0..MaxEntries}
GoogleFeeds == UNION {[1..n -> GoogleEntries] : n \in 0..(MaxEntries - 1)}

NO_NEWS_HEADLINE == <<"No fresh news">>

InitNews ==
    /\ pc = "off"
    /\ stateFile = FileMissing
    /\ startFile = FileMissing
    /\ state = JsonDict(EmptyDict)
    /\ override = [exists |-> FALSE, text |-> <<>>]
    /\ maxAge = 1
    /\ now = 0
    /\ newest = NoEntry
    /\ feedKind = "unfetched"
    /\ page_url = None
    /\ bg_img = NoImg
    /\ poster = NoPoster
    /\ writes = 0
    /\ committed = None
    /\ outcome = "none"
    /\ prev = NoPrev
    /\ gdelt_queried = FALSE
    /\ amp_page = NoAmpPage
    /\ amp_img_url = None
    /\ cands = <<>>
    /\ picked = NoImg
    /\ pickPc = "off"
    /\ newsPc = "idle"
    /\ FORCE_GENERATE = TRUE
    /\ news_now = 0
    /\ base_url = <<>>
    /\ mc_raw = <<>>
    /\ google_raw = <<>>
    /\ google_asked = FALSE
    /\ it = NoItem
    /\ drawn = None
    /\ cardFiles = {}
    /\ metaFile = NoMeta
    /\ urlFile = NoUrl
    /\ filesBefore = [cards |-> {}, meta |-> NoMeta, url |-> NoUrl]

\* The writes of a run that draws the card uid: draw_card, meta.json, and
\* url.txt when there is a base URL.
WriteCard(uid, caption, base) ==
    /\ drawn' = uid
    /\ cardFiles' = cardFiles \cup {uid}
    /\ metaFile' = [uid |-> uid, caption |-> caption,
                    image_url |-> ImageUrl(base, uid)]
    /\ urlFile' = IF ImageUrl(base, uid) # <<>> THEN ImageUrl(base, uid)
                  ELSE urlFile

\* A run that writes nothing.
WriteNothing ==
    /\ drawn' = None
    /\ UNCHANGED <<cardFiles, metaFile, urlFile>>

\* What the fetches of one run can give main: the instant, the feeds, whether
\* Google was asked, and items.  Computed once, over every feed of McFeeds
\* and GoogleFeeds.
NewsFetches ==
    UNION { LET mcItems == fetch_moneycontrol(mc, t, NEWS_WINDOW_HOURS)
            IN  { [t |-> t, mc |-> mc, g |-> g,
                   asked |-> (mcItems = <<>>),
                   items |-> IF mcItems = <<>>
                             THEN fetch_google(g, t, NEWS_WINDOW_HOURS)
                             ELSE mcItems] :
                    g \in (IF mcItems = <<>> THEN GoogleFeeds ELSE {<<>>}) } :
            t \in NewsNows, mc \in McFeeds }

\* The same, with main's  it  and the uid of the card the run would draw.
NewsRuns ==
    { [t |-> f.t, mc |-> f.mc, g |-> f.g, asked |-> f.asked,
       it |-> IF f.items = <<>> THEN NoItem ELSE MaxByPublished(f.items),
       uid |-> IF f.items = <<>> THEN FallbackUid(f.t)
               ELSE ItemUid(MaxByPublished(f.items))] : f \in NewsFetches }

\* main(): fetch_moneycontrol; fetch_google when that gave no item; the
\* fallback card or the exit when there is still none; else the latest
\* item, the duplicate safeguard, the card, meta.json and url.txt.
NewsMain ==
    /\ newsPc \in {"idle", "done"}
    /\ \E force \in BOOLEAN, base \in NewsBases, r \in NewsRuns :
          /\ FORCE_GENERATE' = force
          /\ news_now' = r.t
          /\ base_url' = base
          /\ mc_raw' = r.mc
          /\ google_raw' = r.g
          /\ google_asked' = r.asked
          /\ it' = r.it
          /\ IF r.it = NoItem
             THEN IF force
                  THEN WriteCard(r.uid, NO_NEWS_HEADLINE, base)
                  ELSE WriteNothing
             ELSE IF SkipsDuplicate(force, r.uid \in cardFiles)
                  THEN WriteNothing
                  ELSE WriteCard(r.uid, r.it.title \o r.it.link, base)
    /\ filesBefore' = [cards |-> cardFiles, meta |-> metaFile, url |-> urlFile]
    /\ newsPc' = "done"
    /\ UNCHANGED <<pc, stateFile, startFile, state, override, maxAge, now,
                   newest, feedKind, page_url, bg_img, poster, writes,
                   committed, outcome, prev, gdelt_queried, pickVars, ampVars>>

NextNews == NewsMain

SpecNews == InitNews /\ [][NextNews]_vars

(***************************************************************************)
(* Properties of pick_best_image                                           *)
(***************************************************************************)

\* A candidate that survives validation: it has a URL, the blocklist lets it
\* through, its download decodes, and the image is at least 300 x 200.
Survives(c) ==
    /\ c.url # None
    /\ c.url # <<>>
    /\ ~looks_generic_url(c.url)
    /\ ~is_gnews_logo(c.url)
    /\ c.fetched.ok
    /\ c.fetched.w >= 300
    /\ c.fetched.h >= 200

SurvivorsIn(t) == {i \in 1..Len(cands) : cands[i].src = t /\ Survives(cands[i])}

\* The highest tier with a surviving candidate, "none" when there is none.
TopTier ==
    IF SurvivorsIn("publisher") # {} THEN "publisher"
    ELSE IF SurvivorsIn("rss") # {} THEN "rss"
    ELSE IF SurvivorsIn("gnews") # {} THEN "gnews"
    ELSE "none"

\* C9: pick_best_image returns the image of a surviving candidate of the
\* highest tier (publisher > rss > gnews) that has a surviving candidate,
\* whatever the scores in lower tiers; an image of a lower tier is returned
\* only when no higher tier has a survivor, and None only when no tier has.
C9_TierPrecedence ==
    pickPc = "returned" =>
        IF TopTier = "none" THEN picked = NoImg
        ELSE /\ picked # NoImg
             /\ picked.idx \in SurvivorsIn(TopTier)
             /\ cands[picked.idx].fetched = Fetched(picked.w, picked.h)

\* C9 witness: a 300x200 publisher image was returned although a surviving
\* 4000x3000 gnews image was among the candidates.
C9_Witness ==
    /\ pickPc = "returned"
    /\ picked # NoImg
    /\ cands[picked.idx].src = "publisher"
    /\ picked.w = 300 /\ picked.h = 200
    /\ \E i \in SurvivorsIn("gnews") : cands[i].fetched = Fetched(4000, 3000)

\* C10: the image pick_best_image returns is at least 300 wide and 200 high
\* and is the decoded download of the candidate it came from; a candidate
\* below either minimum never stands in for a valid one: with a surviving
\* candidate in the list the result is not None.
C10_MinSize ==
    pickPc = "returned" =>
        /\ picked # NoImg =>
              /\ picked.w >= 300
              /\ picked.h >= 200
              /\ picked.idx \in 1..Len(cands)
              /\ cands[picked.idx].fetched = Fetched(picked.w, picked.h)
        /\ (\E i \in 1..Len(cands) : Survives(cands[i])) => picked # NoImg

\* C10 witness: an undersized candidate (one too narrow or too low) came
\* before a valid one of the same tier, and the valid one was returned.
C10_Witness ==
    /\ pickPc = "returned"
    /\ picked # NoImg
    /\ \E i \in 1..Len(cands) :
          /\ i < picked.idx
          /\ cands[i].src = cands[picked.idx].src
          /\ cands[i].fetched.ok
          /\ cands[i].fetched.h < 200
          /\ cands[i].fetched.w > picked.w

(***************************************************************************)
(* Properties of main                                                      *)
(***************************************************************************)

\* The last_id a state file holds for main, None when it holds none.
LastIdOf(file) ==
    LET st == load_state(file)
    IN  IF st.type = "dict" /\ "last_id" \in st.d.keys THEN st.d.last_id
        ELSE None

\* The fingerprint of the item this run resolved.
RunFingerprint == AutoId(newest.title, page_url)

\* The run took the automatic path and resolved its item, so the item passed
\* the freshness gate.
ResolvedFresh == ~ManualTaken /\ newest # NoEntry /\ page_url # None

\* C1: a run without manual override whose newest item is fresh and has the
\* fingerprint the state file held at the start of the run (committed by an
\* earlier run) ends skipped-duplicate: it writes no poster and does not
\* rewrite the state.
C1_SkipsDuplicate ==
    (/\ pc = "done"
     /\ ResolvedFresh
     /\ outcome \notin {"failed", "source-raised"}
     /\ RunFingerprint = LastIdOf(startFile))
        => /\ outcome = "skipped-duplicate"
           /\ poster = NoPoster
           /\ writes = 0

\* C2: once the gate has looked at a newest item, the run has ended
\* skipped-stale exactly when now - published_at > MAX_AGE_MINUTES; at
\* equality and below, the item is let through to resolution.
C2_FreshnessGate ==
    (pc \in {"extract", "render", "commit", "done"} /\ newest # NoEntry) =>
        IF now - newest.published_at > maxAge * 60
        THEN /\ outcome = "skipped-stale"
             /\ pc = "done"
             /\ poster = NoPoster
        ELSE /\ outcome # "skipped-stale"
             /\ pc = "done" => /\ page_url # None
                               /\ outcome \in {"rendered", "crashed", "failed",
                                               "source-raised"}

\* C2 witness: an item exactly MAX_AGE_MINUTES old was rendered.
C2_Witness ==
    /\ outcome = "rendered"
    /\ now - newest.published_at = maxAge * 60

\* C3: an item without a publish instant is never main's newest item, so it
\* is never gated as fresh nor rendered, whatever MAX_AGE_MINUTES is; a feed
\* holding only such items ends the run no-news-found, with no poster and
\* the state file untouched.
C3_UndatedNeverFresh ==
    /\ newest # NoEntry => newest.published_at # NoTime
    /\ poster.kind = "auto" => newest.published_at # NoTime
    /\ feedKind \in {"empty", "undated"} =>
          /\ newest = NoEntry
          /\ pc = "done"
          /\ outcome = "no-news-found"
          /\ poster = NoPoster
          /\ stateFile = startFile

\* C3 witness: with MAX_AGE_MINUTES at the 9999 sentinel, a feed of undated
\* items only ended no-news-found.
C3_Witness ==
    /\ feedKind = "undated"
    /\ maxAge = SENTINEL_AGE_MIN
    /\ outcome = "no-news-found"

\* C4: after a run that ends rendered, the state file is a record whose
\* last_id is the fingerprint of the item just rendered, with that item's
\* title and link; the last_id that was there before, when different, is
\* gone.
C4_LastIdOverwritten ==
    outcome = "rendered" =>
        LET st == load_state(stateFile)
        IN  /\ stateFile.kind = "json"
            /\ st.type = "dict"
            /\ "last_id" \in st.d.keys
            /\ st.d.last_id = RunFingerprint
            /\ st.d.last_title = newest.title
            /\ st.d.last_link = page_url
            /\ LastIdOf(startFile) # RunFingerprint =>
                  LastIdOf(stateFile) # LastIdOf(startFile)

\* C4 witness: a rendered run replaced the different fingerprint an earlier
\* rendered run had committed.
C4_Witness ==
    /\ outcome = "rendered"
    /\ prev.outcome = "rendered"
    /\ prev.id = LastIdOf(startFile)
    /\ prev.id # RunFingerprint
    /\ LastIdOf(stateFile) = RunFingerprint

\* C5: the state file changes only in the commit that ends a run, after the
\* poster has been written and not more than once per run; a run that ends
\* skipped-stale, no-news-found or by a failure before its commit leaves the
\* file as it was when the run started.
C5_CommitOnce ==
    /\ [][stateFile' # stateFile =>
            /\ pc \in {"commit", "manual_commit"}
            /\ pc' = "done"
            /\ poster # NoPoster
            /\ writes = 0
            /\ writes' = 1]_vars
    /\ [](writes <= 1)
    /\ [](outcome \in {"skipped-stale", "no-news-found", "failed", "crashed",
                       "source-raised"}
             => stateFile = startFile /\ writes = 0)

\* C5 witness: a run ended skipped-stale with a state file that an earlier
\* run had written, and the file is as it was.
C5_Witness ==
    /\ outcome = "skipped-stale"
    /\ LastIdOf(startFile) # None
    /\ stateFile = startFile

\* C6: with headline.txt present and not blank, the run ends with the manual
\* headline rendered and its id committed, whatever the state file held and
\* without fetching the feed; with headline.txt missing or blank the run
\* takes the automatic path.
C6_ManualAlwaysCommits ==
    /\ (pc = "done" /\ ManualTaken /\ outcome # "failed") =>
          /\ outcome = "manual"
          /\ poster = [kind |-> "manual", headline |-> OverrideTxt,
                       img |-> NoImg]
          /\ LastIdOf(stateFile) = ManualId(OverrideTxt)
          /\ feedKind = "unfetched"
    /\ ~ManualTaken =>
          /\ pc \notin {"manual", "manual_commit"}
          /\ outcome # "manual"

\* The titles and resolved links of the model's items, and the headlines of
\* its override files.
Titles == {Strip(t) : t \in RawTitles}
PageUrls == {Strip(l) : l \in RawLinks} \cup CanonicalUrls
Headlines == {Strip(t) : t \in OverrideTexts} \ {<<>>}

\* C7: the last_id a manual run commits equals the last_id of no automatic
\* run, and the last_id an automatic run commits equals that of no manual
\* run, for every headline, title and link, a title that is a headline
\* included.
C7_ManualAutoDisjoint ==
    /\ outcome = "manual" =>
          /\ committed = LastIdOf(stateFile)
          /\ \A t \in Titles \cup Headlines, u \in PageUrls \cup {<<>>} :
                committed # AutoId(t, u)
    /\ outcome = "rendered" =>
          /\ committed = LastIdOf(stateFile)
          /\ \A h \in Headlines \cup {t \o u : t \in Titles, u \in PageUrls} :
                committed # ManualId(h)
    /\ (prev.outcome = "manual" /\ outcome = "rendered") => committed # prev.id
    /\ (prev.outcome = "rendered" /\ outcome = "manual") => committed # prev.id

\* C7 witness: after a manual run with headline "abc", an automatic run
\* rendered an item whose title + link is "abc" too.
C7_Witness ==
    /\ prev.outcome = "manual"
    /\ prev.id = ManualId(<<"a","b","c">>)
    /\ outcome = "rendered"
    /\ newest.title \o page_url = <<"a","b","c">>

\* C8: whatever the state file is when the run starts (missing, blank, not
\* JSON, or JSON that is no record), the run ends with a normal outcome.
C8_BadStateTolerated ==
    (/\ pc = "done"
     /\ outcome \notin {"failed", "source-raised"}
     /\ \/ startFile.kind \in {"missing", "blank", "garbage"}
        \/ startFile.val.type # "dict")
        => outcome \in {"rendered", "manual", "skipped-stale", "no-news-found"}

(***************************************************************************)
(* Properties of the blocklist and of the score                            *)
(***************************************************************************)

\* The image URLs the blocklist discards, and those on a host of Google's,
\* both computed on the text of the URL.
BlockedUrls == {u \in ImageUrls : LooksGenericText(u) \/ IsGnewsLogoText(u)}
GoogleUrls == {u \in ImageUrls : GoogleHostedText(u)}

\* The URL of the candidate whose image was returned.
PickedUrl == cands[picked.idx].url

\* C11 as stated: an image URL on googleusercontent, gstatic or
\* news.google.com is never the image pick_best_image returns.
C11_GoogleHostNeverReturned ==
    (pickPc = "returned" /\ picked # NoImg) => PickedUrl \notin GoogleUrls

\* C11, amended: a URL the blocklist matches (a branding, logo or icon URL
\* of news.google.com, or any URL holding a blocklist hint) is never the
\* image returned, in any tier and whatever the other candidates are, and
\* the result is what it is without the blocked candidates; a URL on a host
\* of Google's that the blocklist does not match is not discarded: when it
\* is the only surviving candidate it is the image returned.
C11_BlockedNeverReturned ==
    pickPc = "returned" =>
        /\ picked # NoImg => PickedUrl \notin BlockedUrls
        /\ LET kept == SelectSeq(cands, LAMBDA c : c.url \notin BlockedUrls)
               res  == pick_best_image(kept)
           IN  IF picked = NoImg THEN res = NoImg
               ELSE /\ res # NoImg
                    /\ kept[res.idx] = cands[picked.idx]
        /\ \A i \in 1..Len(cands) :
              (/\ cands[i].url \in GoogleUrls \ BlockedUrls
               /\ cands[i].fetched.ok
               /\ ~TooSmall(cands[i].fetched.w, cands[i].fetched.h)
               /\ \A j \in 1..Len(cands) :
                     j # i => ~(cands[j].fetched.ok /\ cands[j].url = URL_PHOTO))
                  => /\ picked # NoImg
                     /\ PickedUrl \in GoogleUrls \ BlockedUrls

\* C11 witness: a 4000x3000 image behind a news.google.com icon URL stood
\* in the publisher tier, and a smaller image of a lower tier was returned.
C11_Witness ==
    /\ pickPc = "returned"
    /\ picked # NoImg
    /\ cands[picked.idx].src # "publisher"
    /\ picked.w = 300
    /\ \E i \in 1..Len(cands) :
          /\ cands[i].src = "publisher"
          /\ cands[i].url = URL_GNEWS_ICON
          /\ cands[i].fetched = Fetched(4000, 3000)

\* score = width x height x multiplier, in tenths of a pixel, from the text
\* of the candidate's URL: 0.6 on a host of Google's, 1.0 otherwise.
ClaimScore(c) ==
    c.fetched.w * c.fetched.h * (IF c.url \in GoogleUrls THEN 6 ELSE 10)

\* What the loop over the candidates leaves in best.
BestOf(cs) == PickLoop(cs, 1, EmptyBest)

\* C12: after the loop, each tier holds the validated candidate of that tier
\* with the maximum score = width x height x multiplier (0.6 on a host of
\* Google's, 1.0 otherwise), or nothing when the tier has none; so of two
\* validated same-tier images of equal dimensions the google-hosted one is
\* not kept, whichever comes first, and a google-hosted image whose
\* penalised area exceeds the area of every other validated image of its
\* tier is kept.
C12_MaxScorePerTier ==
    pickPc = "returned" =>
        \A t \in TierSet :
            LET b == BestOf(cands)[t]
                S == SurvivorsIn(t)
            IN  /\ S = {} => b.img = NoImg
                /\ S # {} =>
                      /\ b.img.idx \in S
                      /\ b.score = ClaimScore(cands[b.img.idx])
                      /\ \A j \in S : ClaimScore(cands[j]) <= b.score
                /\ \A i, j \in S :
                      (/\ cands[i].url \in GoogleUrls
                       /\ cands[j].url \notin GoogleUrls
                       /\ cands[i].fetched = cands[j].fetched)
                          => b.img.idx # i
                /\ \A i \in S :
                      (/\ cands[i].url \in GoogleUrls
                       /\ \A j \in S \ {i} :
                             ClaimScore(cands[i]) >
                                cands[j].fetched.w * cands[j].fetched.h * 10)
                          => b.img.idx = i

\* C12 witness: in one tier, a 300x200 google-hosted image came first, an
\* ordinary 300x200 image second and took its place, and a 4000x3000
\* google-hosted image came third and was kept and returned.
C12_Witness ==
    /\ pickPc = "returned"
    /\ Len(cands) = 3
    /\ cands[1].src = cands[2].src /\ cands[2].src = cands[3].src
    /\ cands[1].url = URL_GUC /\ cands[1].fetched = Fetched(300, 200)
    /\ cands[2].url = URL_PHOTO /\ cands[2].fetched = Fetched(300, 200)
    /\ cands[3].url = URL_GUC /\ cands[3].fetched = Fetched(4000, 3000)
    /\ BestOf(SubSeq(cands, 1, 2))[cands[1].src].img.idx = 2
    /\ picked = [idx |-> 3, w |-> 4000, h |-> 3000]

(***************************************************************************)
(* Properties of the image sources in main                                 *)
(***************************************************************************)

\* C13: whatever the five image sources and the canonical resolution give
\* (a URL, nothing, or a failure), a run whose item passed the freshness
\* gate and is no duplicate, and whose state is a record, ends rendered
\* with the item's fingerprint committed; when no candidate survives
\* validation the poster carries no image.
C13_SourcesNeverAbort ==
    (/\ pc = "done"
     /\ ResolvedFresh
     /\ outcome # "failed"
     /\ load_state(startFile).type = "dict"
     /\ RunFingerprint # LastIdOf(startFile))
        => /\ outcome = "rendered"
           /\ poster.kind = "auto"
           /\ LastIdOf(stateFile) = RunFingerprint
           /\ (\A i \in 1..Len(cands) : ~Survives(cands[i]))
                 => poster.img = NoImg

AmpSurvivors ==
    {i \in 1..Len(amp_page.elems) :
        LET e == amp_page.elems[i]
        IN  /\ e.url # None
            /\ e.url \notin BlockedUrls
            /\ e.fetched.ok
            /\ e.fetched.w >= 300
            /\ e.fetched.h >= 200}

AmpArea(i) == amp_page.elems[i].fetched.w * amp_page.elems[i].fetched.h

\* C16: on a fetched AMP page, extract_from_amp returns the URL of an image
\* element of the largest resolution among those that pass the blocklist
\* and the 300 x 200 minimum, whatever the order of the elements, and None
\* when there is none.
C16_AmpLargest ==
    (pickPc = "amp_returned" /\ amp_page.ok) =>
        IF AmpSurvivors = {} THEN amp_img_url = None
        ELSE \E i \in AmpSurvivors :
                /\ amp_page.elems[i].url = amp_img_url
                /\ \A j \in AmpSurvivors : AmpArea(j) <= AmpArea(i)

(***************************************************************************)
(* Properties of auto_news_instagram.main                                  *)
(***************************************************************************)

\* The entries main looked at, their publish instants, and those within the
\* window, computed from the feeds.
Consulted == IF google_asked THEN google_raw ELSE mc_raw
PubOf(e) == IF e.pp = NoTime THEN news_now ELSE e.pp
InWindow(raw) == {i \in 1..Len(raw) : PubOf(raw[i]) >= news_now - 6}
LatestIn(raw) ==
    {i \in InWindow(raw) : \A j \in InWindow(raw) : PubOf(raw[j]) <= PubOf(raw[i])}
UidOfEntry(e) == Sha1Hex(e.title \o e.link)
FilesUnchanged ==
    /\ cardFiles = filesBefore.cards
    /\ metaFile = filesBefore.meta
    /\ urlFile = filesBefore.url

\* C14: Google is consulted exactly when Moneycontrol yields no item within
\* the window.  With FORCE_GENERATE=1 a run draws a card: that of a latest
\* item within the window, also when its card file exists already, or the
\* fallback card when both feeds yield none; meta.json then names that
\* card.  With FORCE_GENERATE=0 a run draws no card and leaves the card
\* files, meta.json and url.txt as they were when there is no item or the
\* card file of the latest item exists already.
C14_ForceGenerate ==
    newsPc = "done" =>
        /\ google_asked <=> (InWindow(mc_raw) = {})
        /\ ~google_asked => google_raw = <<>>
        /\ FORCE_GENERATE =>
              /\ drawn # None
              /\ drawn \in cardFiles
              /\ metaFile.uid = drawn
              /\ IF InWindow(Consulted) = {}
                 THEN drawn = FallbackUid(news_now)
                 ELSE \E i \in LatestIn(Consulted) :
                         drawn = UidOfEntry(Consulted[i])
        /\ (~FORCE_GENERATE /\ InWindow(Consulted) = {}) =>
              drawn = None /\ FilesUnchanged
        /\ (/\ ~FORCE_GENERATE
            /\ InWindow(Consulted) # {}
            /\ \A i \in LatestIn(Consulted) :
                  UidOfEntry(Consulted[i]) \in filesBefore.cards) =>
              drawn = None /\ FilesUnchanged

\* C14 witness: with FORCE_GENERATE=1, a run drew the card of the latest
\* item again although its card file was there, after Google had been
\* consulted because Moneycontrol gave only an item outside the window.
C14_Witness ==
    /\ newsPc = "done"
    /\ FORCE_GENERATE
    /\ google_asked
    /\ mc_raw # <<>>
    /\ it # NoItem
    /\ drawn = Sha1Hex(it.title \o it.link)
    /\ drawn \in filesBefore.cards

=============================================================================
